---- MODULE Spec2Model ----
(***************************************************************************)
(* mercurius-apollo-tracing: the plugin of src/index.ts as a state machine.*)
(*                                                                         *)
(* One JavaScript event loop runs everything, so every action below is one *)
(* synchronous run of code: a plugin registration, a preExecution hook, an *)
(* onResolution hook up to its await, the continuation after the await, a  *)
(* setImmediate callback.  The clock (Date.now) advances between them.     *)
(*                                                                         *)
(* flushTraces, sendReport, prepareReportWithHeaders, getTraceSize,        *)
(* addTraceToReportAndFinishTiming and ApolloTraceBuilder live in files    *)
(* that index.ts imports; they are modelled from the specification.        *)
(***************************************************************************)
EXTENDS Integers, Sequences, FiniteSets

\* ------------------------------------------------------------------ bounds

\* Number of GraphQL requests a behaviour serves.
MaxReqs == 2

\* Last value of the clock (Date.now(), in units of one millisecond).
MaxTime == 2

Reqs == 1..MaxReqs

\* The fastify instances a process may hold.
Apps == {"app1", "app2"}

\* ---------------------------------------------------------- program values

\* JavaScript's undefined, for the optional numbers and for context.errors.
Undefined == -1

DEFAULT_MAX_REPORT_SIZE == 4 * 1024 * 1024

DEFAULT_MAX_REPORT_TIME == 10 * 1000

\* opts.apiKey / opts.graphRef: "" stands for a missing (or empty) string.
ApiKeys == {"", "service:key"}

GraphRefs == {"", "graph@current"}

\* opts.reportIntervalMs as given by the caller.
ReportIntervalOptions == {Undefined, 0, 1}

\* opts.maxUncompressedReportSize as given by the caller.
ReportSizeOptions == {Undefined, 0, 2}

MercuriusApolloTracingOptions ==
  [apiKey : ApiKeys,
   graphRef : GraphRefs,
   sendReportsImmediately : BOOLEAN,
   reportIntervalMs : ReportIntervalOptions,
   maxUncompressedReportSize : ReportSizeOptions]

\* The options the registrations are tried with: every pair of thresholds for
\* a batching registration that has its credentials, and the default
\* thresholds for the others.
OptionInputs ==
  {o \in MercuriusApolloTracingOptions :
     (o.apiKey = "" \/ o.graphRef = "" \/ o.sendReportsImmediately)
       => (o.reportIntervalMs = Undefined /\ o.maxUncompressedReportSize = Undefined)}

\* An errors property that is undefined.
NoErrors == [defined |-> FALSE, list |-> <<>>]

\* context.errors as left by the preExecution hooks: undefined or a list.
ContextErrorInputs == {NoErrors, [defined |-> TRUE, list |-> <<"c1">>]}

\* execution.errors of the execution result: undefined or a non-empty list.
ExecutionErrorInputs == {NoErrors, [defined |-> TRUE, list |-> <<"x1", "x2">>]}

\* The options a registration has not received yet.
NoOpts ==
  [apiKey |-> "", graphRef |-> "", sendReportsImmediately |-> FALSE,
   reportIntervalMs |-> Undefined, maxUncompressedReportSize |-> Undefined]

\* No onResolution hook has been called yet.
NoResolution == [request |-> 0, contextErrors |-> NoErrors, executionErrors |-> NoErrors]

\* A trace builder no request owns yet.
NoBuilder == [started |-> FALSE, rootEnd |-> Undefined, errors |-> <<>>]

VARIABLES
  hosts,              \* the fastify instances of this process
  registration,       \* per instance: "none", "registered", "failed"
  opts,               \* per instance: the options of its registration
  wrapped,            \* per instance: hookIntoSchemaResolvers has run
  hooks,              \* per instance: the graphql hooks added
  traceBuilders,      \* the module-level array of finished trace builders
  firstTraceSize,     \* per registration: let firstTraceSize
  traceBuildersTimer, \* per registration: let traceBuildersTimer
  now,                \* Date.now()
  pc,                 \* per request: where its hooks stand
  owner,              \* per request: the instance serving it
  resolution,         \* the arguments of the latest onResolution call
  builder,            \* per request: context.__traceBuilder
  reachedMaxSize,     \* per request: const reachedMaxSize
  reachedMaxTime,     \* per request: const reachedMaxTime
  awaited,            \* per request: index of the report whose send it awaits
  immediates,         \* requests whose setImmediate callback is pending
  reports,            \* every report handed to sendReport, in order
  decorators          \* per instance: the names the plugin decorated it with

vars ==
  <<hosts, registration, opts, wrapped, hooks, traceBuilders, firstTraceSize,
    traceBuildersTimer, now, pc, owner, resolution, builder, reachedMaxSize,
    reachedMaxTime, awaited, immediates, reports, decorators>>

\* ------------------------------------------------------------ pure helpers

\* JavaScript truthiness of an optional number: undefined and 0 are falsy.
Falsy(n) == n = Undefined \/ n = 0

\* JavaScript `v || d`.
OrDefault(v, d) == IF Falsy(v) THEN d ELSE v

\* ApolloTraceBuilder.startTiming: the trace's clock starts.
startTiming(b) == [b EXCEPT !.started = TRUE]

\* ApolloTraceBuilder.stopTiming at time t: records rootEnd once.
stopTiming(b, t) == IF b.rootEnd = Undefined THEN [b EXCEPT !.rootEnd = t] ELSE b

\* ApolloTraceBuilder.didEncounterErrors: appends the errors in order.
didEncounterErrors(b, errors) == [b EXCEPT !.errors = @ \o errors]

\* getTraceSize: the serialized size of the builder's trace, which grows with
\* what the trace holds (here its errors).
getTraceSize(b) == 1 + Len(b.errors)

\* The errors the onResolution hook hands to the builder (lines 84-90).
ReportedErrors(ce, ee) ==
  IF ce.defined THEN ce.list
  ELSE IF ee.defined THEN ee.list
  ELSE <<>>

\* prepareReportWithHeaders(schema, opts): an empty report built by instance
\* a's registration, whose header carries the graph identity and api key of
\* the options o it is given.
prepareReportWithHeaders(a, o) ==
  [app |-> a,
   header |-> [graphRef |-> o.graphRef, apiKey |-> o.apiKey],
   traces |-> <<>>,
   status |-> "new"]

\* addTraceToReportAndFinishTiming(traceBuilder, report) at time t.
addTraceToReportAndFinishTiming(r, b, report, t) ==
  [report EXCEPT !.traces =
     Append(@, [id |-> r, rootEnd |-> stopTiming(b, t).rootEnd])]

\* sendReport(report, opts, app): the report goes out; rs is the log of sends.
sendReport(rs, report) == Append(rs, [report EXCEPT !.status = "inflight"])

\* The report flushTraces builds from the builders tb (ids) for instance a
\* with the options o.
RECURSIVE FlushReport(_, _, _, _, _)
FlushReport(a, o, tb, bs, t) ==
  IF tb = <<>> THEN prepareReportWithHeaders(a, o)
  ELSE addTraceToReportAndFinishTiming(
         tb[Len(tb)], bs[tb[Len(tb)]],
         FlushReport(a, o, SubSeq(tb, 1, Len(tb) - 1), bs, t), t)

\* The request ids of a report's traces, in order.
TraceIds(report) == [i \in 1..Len(report.traces) |-> report.traces[i].id]

\* The elements of a sequence.
Range(s) == {s[i] : i \in 1..Len(s)}

\* flushTraces(app, traceBuilders, opts): nothing when the array is empty;
\* otherwise one report with every builder of the array, headed from the
\* options o of the call, is sent and the array is emptied.  rs is the log of
\* sends so far.
flushTraces(a, o, rs) ==
  /\ reports' =
       IF traceBuilders = <<>> THEN rs
       ELSE sendReport(rs, FlushReport(a, o, traceBuilders, builder, now))
  /\ traceBuilders' = <<>>

\* const reachedMaxSize (lines 110-112), for n builders in the array.
ReachedMaxSize(a, fts, n) ==
  /\ fts # Undefined
  /\ fts * n >= OrDefault(opts[a].maxUncompressedReportSize, DEFAULT_MAX_REPORT_SIZE)

\* reachedMaxTime with > for >=: a flush one tick late.
ReachedMaxTime_Strict(a, t) ==
  t > traceBuildersTimer[a]
        + OrDefault(opts[a].reportIntervalMs, DEFAULT_MAX_REPORT_TIME)

\* const reachedMaxTime (lines 114-117), at time t.
ReachedMaxTime(a, t) ==
  t >= traceBuildersTimer[a]
         + OrDefault(opts[a].reportIntervalMs, DEFAULT_MAX_REPORT_TIME)

\* ------------------------------------------------------------------- state

\* A process holding the instances hs: nothing registered, no request yet.
InitWith(hs) ==
  /\ hosts = hs
  /\ registration = [a \in Apps |-> "none"]
  /\ opts = [a \in Apps |-> NoOpts]
  /\ wrapped = [a \in Apps |-> FALSE]
  /\ hooks = [a \in Apps |-> {}]
  /\ traceBuilders = <<>>
  /\ firstTraceSize = [a \in Apps |-> Undefined]
  /\ traceBuildersTimer = [a \in Apps |-> Undefined]
  /\ now = 0
  /\ pc = [r \in Reqs |-> "idle"]
  /\ owner = [r \in Reqs |-> "none"]
  /\ resolution = NoResolution
  /\ builder = [r \in Reqs |-> NoBuilder]
  /\ reachedMaxSize = [r \in Reqs |-> FALSE]
  /\ reachedMaxTime = [r \in Reqs |-> FALSE]
  /\ awaited = [r \in Reqs |-> 0]
  /\ immediates = {}
  /\ reports = <<>>
  /\ decorators = [a \in Apps |-> {}]

\* A process with one fastify instance.
Init == InitWith({"app1"})

\* ----------------------------------------------------------------- actions

\* Date.now() moves on; the clock counts from the first registration.
Tick ==
  /\ \E a \in hosts : registration[a] # "none"
  /\ now < MaxTime
  /\ now' = now + 1
  /\ UNCHANGED <<hosts, registration, opts, wrapped, hooks, traceBuilders,
                 firstTraceSize, traceBuildersTimer, pc, owner, resolution,
                 builder, reachedMaxSize, reachedMaxTime, awaited, immediates,
                 reports, decorators>>

\* app.register(plugin, o): the plugin function of lines 59-133.  A
\* registration that threw leaves nothing behind and the instance may register
\* again; an instance is followed up to its one registration that succeeds.
Register(a, o) ==
  /\ a \in hosts
  /\ registration[a] # "registered"
  /\ opts' = [opts EXCEPT ![a] = o]
  /\ firstTraceSize' = [firstTraceSize EXCEPT ![a] = Undefined]
  /\ traceBuildersTimer' = [traceBuildersTimer EXCEPT ![a] = now]
  /\ IF o.apiKey = ""
       THEN /\ registration' = [registration EXCEPT ![a] = "failed"]
            /\ UNCHANGED <<wrapped, hooks, traceBuilders, reports>>
       ELSE /\ registration' = [registration EXCEPT ![a] = "registered"]
            /\ wrapped' = [wrapped EXCEPT ![a] = TRUE]
            /\ hooks' = [hooks EXCEPT ![a] = {"preExecution", "onResolution"}]
            /\ IF o.sendReportsImmediately
                 THEN UNCHANGED <<traceBuilders, reports>>
                 ELSE flushTraces(a, o, reports)
  /\ UNCHANGED <<hosts, now, pc, owner, resolution, builder, reachedMaxSize,
                 reachedMaxTime, awaited, immediates, decorators>>

\* The preExecution hook of instance a for request r (lines 70-79).  Requests
\* are numbered in the order they start; they complete in any order.
PreExecution(r, a) ==
  /\ pc[r] = "idle"
  /\ \A q \in Reqs : q < r => pc[q] # "idle"
  /\ a \in hosts
  /\ "preExecution" \in hooks[a]
  /\ builder' = [builder EXCEPT ![r] = startTiming(NoBuilder)]
  /\ owner' = [owner EXCEPT ![r] = a]
  /\ pc' = [pc EXCEPT ![r] = "executing"]
  /\ UNCHANGED <<hosts, registration, opts, wrapped, hooks, traceBuilders,
                 firstTraceSize, traceBuildersTimer, now, resolution,
                 reachedMaxSize, reachedMaxTime, awaited, immediates, reports,
                 decorators>>

\* The immediate branch with the else of line 102 lost: the builder is pushed
\* onto traceBuilders as well.
ImmediateBranch_AlsoPushes(r) ==
  /\ immediates' = immediates \cup {r}
  /\ pc' = [pc EXCEPT ![r] = "done"]
  /\ traceBuilders' = Append(traceBuilders, r)
  /\ UNCHANGED <<firstTraceSize, traceBuildersTimer, reachedMaxSize,
                 reachedMaxTime, awaited, reports>>

\* traceBuilders.unshift for push: the builder goes to the front.
push_Front(tb, r) == <<r>> \o tb

\* traceBuilders.push(traceBuilder) (line 103).
push(tb, r) == Append(tb, r)

\* The sendReportsImmediately branch (lines 95-101): the report is left to a
\* setImmediate callback and the hook returns.
ImmediateBranch(r) ==
  /\ immediates' = immediates \cup {r}
  /\ pc' = [pc EXCEPT ![r] = "done"]
  /\ UNCHANGED <<traceBuilders, firstTraceSize, traceBuildersTimer,
                 reachedMaxSize, reachedMaxTime, awaited, reports>>

\* The batching branch (lines 102-126) up to the await of line 123.
BatchingBranch(r) ==
  LET a == owner[r]
      pushed == push(traceBuilders, r)
      fts == IF Falsy(firstTraceSize[a]) /\ Len(pushed) = 1
               THEN getTraceSize(builder'[r])
               ELSE firstTraceSize[a]
      maxSize == ReachedMaxSize(a, fts, Len(pushed))
      maxTime == ReachedMaxTime(a, now)
      report == addTraceToReportAndFinishTiming(
                  r, builder'[r], prepareReportWithHeaders(a, opts[a]), now)
  IN /\ traceBuilders' = pushed
     /\ firstTraceSize' = [firstTraceSize EXCEPT ![a] = fts]
     /\ reachedMaxSize' = [reachedMaxSize EXCEPT ![r] = maxSize]
     /\ reachedMaxTime' = [reachedMaxTime EXCEPT ![r] = maxTime]
     /\ IF maxSize \/ maxTime
          THEN /\ reports' = sendReport(reports, report)
               /\ awaited' = [awaited EXCEPT ![r] = Len(reports) + 1]
               /\ pc' = [pc EXCEPT ![r] = "awaitSend"]
          ELSE /\ pc' = [pc EXCEPT ![r] = "done"]
               /\ UNCHANGED <<reports, awaited>>
     /\ UNCHANGED <<traceBuildersTimer, immediates>>

\* The hook with line 92 lost: stopTiming is left to the report.
OnResolution_NoStop(r) ==
  /\ pc[r] = "executing"
  /\ "onResolution" \in hooks[owner[r]]
  /\ \E ce \in ContextErrorInputs, ee \in ExecutionErrorInputs :
       /\ resolution' = [request |-> r, contextErrors |-> ce, executionErrors |-> ee]
       /\ builder' =
            [builder EXCEPT ![r] =
               didEncounterErrors(builder[r], ReportedErrors(ce, ee))]
  /\ IF opts[owner[r]].sendReportsImmediately
       THEN ImmediateBranch(r)
       ELSE BatchingBranch(r)
  /\ UNCHANGED <<hosts, registration, opts, wrapped, hooks, now, owner, decorators>>

\* The onResolution hook of request r (lines 81-128), up to its first await.
OnResolution(r) ==
  /\ pc[r] = "executing"
  /\ "onResolution" \in hooks[owner[r]]
  /\ \E ce \in ContextErrorInputs, ee \in ExecutionErrorInputs :
       /\ resolution' = [request |-> r, contextErrors |-> ce, executionErrors |-> ee]
       /\ builder' =
            [builder EXCEPT ![r] =
               stopTiming(
                 didEncounterErrors(builder[r], ReportedErrors(ce, ee)), now)]
  /\ IF opts[owner[r]].sendReportsImmediately
       THEN ImmediateBranch(r)
       ELSE BatchingBranch(r)
  /\ UNCHANGED <<hosts, registration, opts, wrapped, hooks, now, owner, decorators>>

\* The continuation with flushTraces replaced by a bare reset of the array:
\* the buffered traces are dropped unsent.
OnResolutionResume_ClearsOnly(r, outcome) ==
  /\ pc[r] = "awaitSend"
  /\ reports' = [reports EXCEPT ![awaited[r]].status = outcome]
  /\ traceBuilders' = <<>>
  /\ traceBuildersTimer' = [traceBuildersTimer EXCEPT ![owner[r]] = now]
  /\ pc' = [pc EXCEPT ![r] = "done"]
  /\ UNCHANGED <<hosts, registration, opts, wrapped, hooks, firstTraceSize, now,
                 owner, resolution, builder, reachedMaxSize, reachedMaxTime,
                 awaited, immediates, decorators>>

\* The continuation with line 125 lost: the timer is not restarted.
OnResolutionResume_KeepsTimer(r, outcome) ==
  /\ pc[r] = "awaitSend"
  /\ flushTraces(owner[r], opts[owner[r]],
                 [reports EXCEPT ![awaited[r]].status = outcome])
  /\ pc' = [pc EXCEPT ![r] = "done"]
  /\ UNCHANGED <<hosts, registration, opts, wrapped, hooks, firstTraceSize, now,
                 owner, resolution, builder, reachedMaxSize, reachedMaxTime,
                 awaited, immediates, decorators, traceBuildersTimer>>

\* The rest of the hook once the awaited send has settled with outcome
\* (lines 123-125): flushTraces, then the timer restarts.
OnResolutionResume(r, outcome) ==
  /\ pc[r] = "awaitSend"
  /\ flushTraces(owner[r], opts[owner[r]],
                 [reports EXCEPT ![awaited[r]].status = outcome])
  /\ traceBuildersTimer' = [traceBuildersTimer EXCEPT ![owner[r]] = now]
  /\ pc' = [pc EXCEPT ![r] = "done"]
  /\ UNCHANGED <<hosts, registration, opts, wrapped, hooks, firstTraceSize, now,
                 owner, resolution, builder, reachedMaxSize, reachedMaxTime,
                 awaited, immediates, decorators>>

\* The setImmediate callback of lines 96-101.
ImmediateCallback(r) ==
  /\ r \in immediates
  /\ immediates' = immediates \ {r}
  /\ reports' =
       sendReport(reports,
                  addTraceToReportAndFinishTiming(
                    r, builder[r],
                    prepareReportWithHeaders(owner[r], opts[owner[r]]), now))
  /\ UNCHANGED <<hosts, registration, opts, wrapped, hooks, traceBuilders,
                 firstTraceSize, traceBuildersTimer, now, pc, owner, resolution,
                 builder, reachedMaxSize, reachedMaxTime, awaited, decorators>>

Next ==
  \/ Tick
  \/ \E a \in Apps, o \in OptionInputs : Register(a, o)
  \/ \E r \in Reqs, a \in Apps : PreExecution(r, a)
  \/ \E r \in Reqs : OnResolution(r)
  \/ \E r \in Reqs, outcome \in {"ok", "failed"} : OnResolutionResume(r, outcome)
  \/ \E r \in Reqs : ImmediateCallback(r)

Spec == Init /\ [][Next]_vars

\* A process with two fastify instances, each registering the plugin.
MultiInit == InitWith(Apps)

MultiSpec == MultiInit /\ [][Next]_vars

\* What the event loop guarantees: the clock moves on, a settled send resumes
\* the hook that awaits it, a setImmediate callback runs.  Requests are the
\* clients' business: none has to arrive or to complete.
Fairness ==
  /\ WF_vars(Tick)
  /\ \A r \in Reqs : WF_vars(\E outcome \in {"ok", "failed"} : OnResolutionResume(r, outcome))
  /\ \A r \in Reqs : WF_vars(ImmediateCallback(r))

FairSpec == Spec /\ Fairness

\* ------------------------------------------------------------------ claims

\* Request r's onResolution hook runs in this step, in batching mode.
BatchedCompletion(r) ==
  /\ pc[r] = "executing"
  /\ pc'[r] # "executing"
  /\ ~opts[owner[r]].sendReportsImmediately

\* Request r's hook gets past its await in this step: a flush ends.
FlushEnds(r) == pc[r] = "awaitSend" /\ pc'[r] = "done"

\* The thresholds in force for instance a.
EffectiveMaxSize(a) == OrDefault(opts[a].maxUncompressedReportSize, DEFAULT_MAX_REPORT_SIZE)

EffectiveInterval(a) == OrDefault(opts[a].reportIntervalMs, DEFAULT_MAX_REPORT_TIME)

\* openedAt as the specification defines it: the time the first trace of the
\* current batch was appended (its stopTiming and its push are one step).
OpenedAt == builder[traceBuilders[1]].rootEnd

\* firstTraceSize * traceBuilders.length for instance a (NaN while undefined).
SizeEstimate(a) ==
  IF firstTraceSize[a] = Undefined THEN Undefined
  ELSE firstTraceSize[a] * Len(traceBuilders)

\* C1: in batching mode, with the time threshold not reached, a completing
\* trace triggers a flush exactly when firstTraceSize * (traces accumulated)
\* >= maxUncompressedReportSize, and that flush hands the Reporter one report
\* holding exactly the accumulated traces.
C1_SizeFlushHoldsTheCycle ==
  [][\A r \in Reqs :
       (BatchedCompletion(r) /\ ~reachedMaxTime'[r]) =>
         /\ (pc'[r] = "awaitSend") <=>
              (SizeEstimate(owner[r])' # Undefined
                 /\ SizeEstimate(owner[r])' >= EffectiveMaxSize(owner[r]))
         /\ (pc'[r] = "awaitSend") =>
              /\ Len(reports') = Len(reports) + 1
              /\ TraceIds(reports'[Len(reports')]) = traceBuilders']_vars

\* C1, the case: the second size-1 trace reaches the limit of 2, and the
\* report of its flush holds that trace alone.
C1_SecondTraceFlushesAlone ==
  \E r \in Reqs :
    /\ pc[r] = "awaitSend"
    /\ reachedMaxSize[r] /\ ~reachedMaxTime[r]
    /\ Len(traceBuilders) = 2
    /\ TraceIds(reports[awaited[r]]) = <<r>>

\* C2 as claimed: a completing trace meets the time threshold exactly when
\* now >= openedAt + reportIntervalMs, openedAt being the time the first trace
\* of the current batch was appended.
C2_TimeThresholdFromFirstTrace ==
  [][\A r \in Reqs :
       BatchedCompletion(r) =>
         (reachedMaxTime'[r] <=> now >= OpenedAt' + EffectiveInterval(owner[r]))]_vars

\* C2 as the code has it: a completing trace meets the time threshold exactly
\* when now >= traceBuildersTimer + the interval in force, and then it
\* flushes; traceBuildersTimer is set to the clock by the registration and by
\* the end of each request-triggered flush of that registration, and by
\* nothing else: appending the first trace of a batch leaves it alone.
C2_TimeThresholdFromTimer ==
  [][/\ \A r \in Reqs :
          BatchedCompletion(r) =>
            /\ reachedMaxTime'[r] <=>
                 now >= traceBuildersTimer[owner[r]] + EffectiveInterval(owner[r])
            /\ reachedMaxTime'[r] => pc'[r] = "awaitSend"
     /\ \A a \in Apps :
          traceBuildersTimer'[a] # traceBuildersTimer[a] =>
            /\ traceBuildersTimer'[a] = now
            /\ \/ registration[a] # "registered" /\ registration'[a] # "none"
               \/ \E r \in Reqs : owner[r] = a /\ FlushEnds(r)]_vars

\* C2, the case: the first trace after an idle period longer than the
\* interval flushes on the time threshold alone.
C2_FirstTraceAfterIdleFlushes ==
  \E r \in Reqs :
    /\ pc[r] = "awaitSend"
    /\ reachedMaxTime[r] /\ ~reachedMaxSize[r]
    /\ traceBuilders = <<r>>
    /\ builder[r].rootEnd > traceBuildersTimer[owner[r]] + EffectiveInterval(owner[r])

\* C3: in batching mode, traces that the accumulator still holds when
\* reportIntervalMs has passed since openedAt are flushed in the end, whether
\* or not another request completes (a background timer).
C3_IdleAccumulatorIsFlushed ==
  []((/\ traceBuilders # <<>>
      /\ \A a \in hosts :
           registration[a] = "registered" /\ now >= OpenedAt + EffectiveInterval(a))
       => <>(traceBuilders = <<>>))

\* C4: with sendReportsImmediately, a completed request yields exactly one
\* report, holding exactly its trace, and no request changes traceBuilders,
\* firstTraceSize or traceBuildersTimer.
C4_ImmediateModeBypassesAccumulator ==
  /\ [](\A r \in Reqs :
          (pc[r] = "done" /\ opts[owner[r]].sendReportsImmediately) =>
            /\ \A i \in 1..Len(reports) :
                 r \in Range(TraceIds(reports[i])) => TraceIds(reports[i]) = <<r>>
            /\ Cardinality({i \in 1..Len(reports) : r \in Range(TraceIds(reports[i]))})
                 = IF r \in immediates THEN 0 ELSE 1)
  /\ [][(\A a \in hosts :
           registration[a] = "registered" /\ opts[a].sendReportsImmediately)
          => UNCHANGED <<traceBuilders, firstTraceSize, traceBuildersTimer>>]_vars

\* C4, the case: two requests served in immediate mode, each with its report.
C4_TwoImmediateReports ==
  /\ \A r \in Reqs : pc[r] = "done" /\ opts[owner[r]].sendReportsImmediately
  /\ immediates = {}
  /\ Len(reports) = MaxReqs

\* C5: when a flush ends, the accumulator is empty, its size estimate is zero
\* and the timer has been reset to the clock; no trace of a report sent so far
\* is left in it.
C5_FlushLeavesAccumulatorEmpty ==
  [][\A r \in Reqs :
       FlushEnds(r) =>
         /\ traceBuilders' = <<>>
         /\ SizeEstimate(owner[r])' = 0
         /\ traceBuildersTimer'[owner[r]] = now
         /\ \A i \in 1..Len(reports') :
              Range(TraceIds(reports'[i])) \cap Range(traceBuilders') = {}]_vars

\* C5, the case: a flush of two traces has ended, later than the registration.
C5_FlushEnded ==
  \E r \in Reqs :
    /\ pc[r] = "done"
    /\ awaited[r] # 0
    /\ traceBuilders = <<>>
    /\ traceBuildersTimer[owner[r]] > 0
    /\ \E i \in 1..Len(reports) : Len(reports[i].traces) = 2

\* C6: no onResolution hook waits for a network send.
C6_HookNeverAwaitsSend == \A r \in Reqs : pc[r] # "awaitSend"

\* C7: the traces of a report whose send failed are dropped: they are in no
\* later report and, once the hook that sent it has returned, not in the
\* accumulator.
C7_FailedBatchIsDropped ==
  \A i \in 1..Len(reports) :
    reports[i].status = "failed" =>
      /\ \A j \in (i + 1)..Len(reports) :
           Range(TraceIds(reports[i])) \cap Range(TraceIds(reports[j])) = {}
      /\ Range(TraceIds(reports[i])) \cap Range(traceBuilders) = {}

\* C8: a registration succeeds only with both apiKey and graphRef, and a
\* failed one wraps no resolver and adds no hook.
C8_CredentialsRequired ==
  \A a \in hosts :
    /\ registration[a] = "registered" => (opts[a].apiKey # "" /\ opts[a].graphRef # "")
    /\ registration[a] = "failed" => (~wrapped[a] /\ hooks[a] = {})

\* C9: a batching registration leaves flushApolloTracing on the instance.
C9_ManualFlushExposed ==
  \A a \in hosts :
    (registration[a] = "registered" /\ ~opts[a].sendReportsImmediately)
      => "flushApolloTracing" \in decorators[a]

\* C10: the finalized trace holds every error of the operation, the context's
\* and the execution's, in order.
C10_AllErrorsRecorded ==
  resolution.request # 0 =>
    builder[resolution.request].errors =
      resolution.contextErrors.list \o resolution.executionErrors.list

\* C11: append, threshold check and reset are one atomic step: no two hooks
\* have decided to flush and not yet cleared the accumulator, and while a hook
\* stands between its decision and its clearing nothing is appended after its
\* own trace.
C11_FlushIsAtomic ==
  \A r \in Reqs :
    pc[r] = "awaitSend" =>
      /\ \A q \in Reqs \ {r} : pc[q] # "awaitSend"
      /\ traceBuilders # <<>>
      /\ traceBuilders[Len(traceBuilders)] = r

\* C11, the case: two hooks are both past their decision to flush.
C11_TwoFlushesPending ==
  \A r \in Reqs : pc[r] = "awaitSend" /\ r \in Range(traceBuilders)

\* C12: a trace joins the end of traceBuilders in the step in which its
\* stopTiming runs, whatever the order the requests started in, and each
\* report lists its traces in that order: a report sent by flushTraces is the
\* array as it stood, and stop times never decrease along a report.
C12_ReportsInCompletionOrder ==
  /\ [][\A r \in Reqs :
          BatchedCompletion(r) =>
            /\ builder'[r].rootEnd = now
            /\ traceBuilders' = Append(traceBuilders, r)]_vars
  /\ [][\A i \in 1..Len(reports') :
          (i > Len(reports) /\ Len(reports'[i].traces) > 1)
            => TraceIds(reports'[i]) = traceBuilders]_vars
  /\ [](\A i \in 1..Len(reports) :
          \A j, k \in 1..Len(reports[i].traces) :
            j < k => reports[i].traces[j].rootEnd <= reports[i].traces[k].rootEnd)

\* C12, the case: the request that started second completed first, and a
\* report lists the two traces in the order of completion.
C12_ReportAgainstStartOrder ==
  \E i \in 1..Len(reports) : TraceIds(reports[i]) = <<2, 1>>

\* C13: a trace appended to an empty accumulator has its size measured, and
\* that size is the proxy of the cycle it opens.
C13_ProxyMeasuredEachCycle ==
  [][\A r \in Reqs :
       (BatchedCompletion(r) /\ traceBuilders = <<>>)
         => firstTraceSize'[owner[r]] = getTraceSize(builder'[r])]_vars

\* C13, the case: a second cycle opens with a trace of another size than the
\* proxy kept from the first cycle.
C13_StaleProxy ==
  \E r \in Reqs :
    /\ traceBuilders = <<r>>
    /\ \E i \in 1..Len(reports) : r \notin Range(TraceIds(reports[i]))
    /\ Len(reports) > 0
    /\ firstTraceSize[owner[r]] # getTraceSize(builder[r])

\* C14: rootEnd is the time of the stopTiming of the request's onResolution
\* hook and never changes afterwards; a report carries that rootEnd, however
\* long the trace waited in the accumulator and however often it was put into
\* a report.
C14_RootEndFixedByHook ==
  /\ [][\A r \in Reqs :
          /\ (pc[r] = "executing" /\ pc'[r] # "executing") => builder'[r].rootEnd = now
          /\ builder[r].rootEnd # Undefined => builder'[r].rootEnd = builder[r].rootEnd]_vars
  /\ [](\A i \in 1..Len(reports) :
          \A j \in 1..Len(reports[i].traces) :
            /\ reports[i].traces[j].rootEnd # Undefined
            /\ reports[i].traces[j].rootEnd = builder[reports[i].traces[j].id].rootEnd)

\* C14, the case: a trace stopped at an earlier time than the trace whose
\* completion flushed it, and is in two reports or in a report with it.
C14_TraceWaitedForItsReport ==
  \E i \in 1..Len(reports) :
    /\ Len(reports[i].traces) = 2
    /\ reports[i].traces[1].rootEnd < reports[i].traces[2].rootEnd
    /\ \E k \in 1..Len(reports) :
         k < i /\ TraceIds(reports[k]) = <<reports[i].traces[2].id>>

\* The option v when it is provided, the default d when it is not.
ConfiguredOr(v, d) == IF v = Undefined THEN d ELSE v

\* C15: the thresholds are the configured values whenever a value is
\* configured, and the defaults only when none is.
C15_ConfiguredThresholdsUsed ==
  [][\A r \in Reqs :
       BatchedCompletion(r) =>
         /\ reachedMaxTime'[r] <=>
              now >= traceBuildersTimer[owner[r]]
                       + ConfiguredOr(opts[owner[r]].reportIntervalMs,
                                      DEFAULT_MAX_REPORT_TIME)
         /\ reachedMaxSize'[r] <=>
              (/\ firstTraceSize'[owner[r]] # Undefined
               /\ firstTraceSize'[owner[r]] * Len(traceBuilders')
                    >= ConfiguredOr(opts[owner[r]].maxUncompressedReportSize,
                                    DEFAULT_MAX_REPORT_SIZE))]_vars

\* C15, the case: a registration configured with a threshold of 0 completes a
\* request without flushing.
C15_ZeroThresholdIgnored ==
  \E r \in Reqs :
    /\ pc[r] = "done"
    /\ r \in Range(traceBuilders)
    /\ awaited[r] = 0
    /\ \/ opts[owner[r]].reportIntervalMs = 0
       \/ opts[owner[r]].maxUncompressedReportSize = 0

\* C16: no trace is in more than one report.
C16_TraceInOneReportAtMost ==
  \A r \in Reqs :
    Cardinality({i \in 1..Len(reports) : r \in Range(TraceIds(reports[i]))}) <= 1

\* The builders of traceBuilders that instance a's requests pushed.
OwnCount(a) ==
  Cardinality({k \in 1..Len(traceBuilders) : owner[traceBuilders[k]] = a})

\* C17: with the plugin registered on several instances, a report holds only
\* traces of the registration whose graph identity and api key head it, and a
\* registration's size threshold counts only its own traces.
C17_RegistrationsIsolated ==
  /\ [](\A i \in 1..Len(reports) :
          \A j \in 1..Len(reports[i].traces) :
            owner[reports[i].traces[j].id] = reports[i].app)
  /\ [][\A r \in Reqs :
          BatchedCompletion(r) =>
            (reachedMaxSize'[r] <=>
               /\ firstTraceSize'[owner[r]] # Undefined
               /\ firstTraceSize'[owner[r]] * OwnCount(owner[r])'
                    >= EffectiveMaxSize(owner[r]))]_vars

\* C17, the case: a report headed by one registration holds a trace that
\* completed under the other.
C17_ForeignTraceInReport ==
  \E i \in 1..Len(reports) :
    \E j \in 1..Len(reports[i].traces) :
      owner[reports[i].traces[j].id] # reports[i].app

\* C18: a trace leaves traceBuilders only in a step that sends a report
\* holding it, the traces appended during an awaited send included.
C18_RemovedOnlyWhenReported ==
  [][\A r \in Range(traceBuilders) \ Range(traceBuilders') :
       \E i \in (Len(reports) + 1)..Len(reports') :
         r \in Range(TraceIds(reports'[i]))]_vars

\* C18, the case: a trace appended while another hook awaited its send has
\* left the accumulator in a report of flushTraces.
C18_LateTraceFlushed ==
  /\ traceBuilders = <<>>
  /\ \E i \in 1..Len(reports) :
       /\ TraceIds(reports[i]) = <<1, 2>>
       /\ awaited[1] # 0 /\ awaited[1] < i
       /\ awaited[2] > awaited[1]

====
